---- MODULE Spec2Model ----
(***************************************************************************)
(* A model of aura-find (src/gui.py): the generation-tagged search of the  *)
(* AuraStore window (SearchWorker, LogoWorker, _on_results, _on_logo), the *)
(* merge done by SearchWorker.run over the three sources, the offline      *)
(* corpus scan search_offline, and the package job PkgWorker.run with      *)
(* run_sudo.                                                               *)
(*                                                                         *)
(* A Python str is a sequence of one-character strings, so that lower(),   *)
(* rstrip(), startswith(), endswith() and the substring test are computed. *)
(***************************************************************************)
EXTENDS Integers, Sequences, FiniteSets, TLC

VARIABLES
    \* ---- SearchWorker.run, one run of it (specification SpecMerge)
    mPc,          \* position in run: "primary", "aur", "offline", "done"
    mQuery,       \* self.query
    mPrimary,     \* outcome of the primary-index request (lines 119-123)
    mAur,         \* outcome of the community-index request (lines 134-138)
    mCorpus,      \* state of data/real_db.json
    mResults,     \* the local list results
    mEmitted,     \* the results_ready emissions of the run, in order
    mRaised       \* TRUE when run ended by an uncaught exception

mergeVars == <<mPc, mQuery, mPrimary, mAur, mCorpus, mResults, mEmitted, mRaised>>

VARIABLES
    \* ---- the AuraStore window and its workers (specification Spec)
    search_id,      \* AuraStore._search_id
    search_worker,  \* AuraStore.search_worker: 0 (None) or the worker's search_id
    logo_worker,    \* AuraStore.logo_worker: 0 (None) or the worker's search_id
    cards,          \* AuraStore._cards: lowercased name -> card
    results_layout, \* the widgets of results_layout, in order
    cardObj,        \* the AppCard objects alive: their fields
    status_lbl,     \* text of status_lbl
    loading,        \* search_btn is in its loading (disabled) state
    sw,             \* the SearchWorker threads, by search_id
    lw,             \* the LogoWorker threads, by search_id
    eventQ,         \* signals queued to the main thread, in emission order
    db_file,        \* state of data/real_db.json during the session
    search_input,   \* text of the search field
    delivered       \* history: search_ids of the deliveries _on_results accepted

guiVars == <<search_id, search_worker, logo_worker, cards, results_layout,
             cardObj, status_lbl, loading, sw, lw, eventQ, db_file, search_input, delivered>>

VARIABLES
    \* ---- one PkgWorker.run (specification SpecPkg)
    pPc,        \* position in run: "start", "spawn", "feed", "read", "finish", "done"
    pJob,       \* pkg_name, is_aur, uninstall
    pHost,      \* which of pacman, yay, paru shutil.which finds
    pWhich,     \* the names shutil.which was asked for, in order
    pPath,      \* "sudo" inside run_sudo, "helper" in the AUR branch, "" before
    pCmd,       \* the argv about to be spawned
    pSpawned,   \* the child processes spawned, by argv
    pStdin,     \* what was done to the child's stdin, in order
    pConsumed,  \* the lines read from the child's stdout so far
    pSink,      \* the output_line emissions, in order
    pSuccess,   \* the local success
    pExit,      \* proc.returncode: <<>> until proc.wait() returns, then <<code>>
    pFinished   \* the finished_ok emissions, in order

pkgVars == <<pPc, pJob, pHost, pWhich, pPath, pCmd, pSpawned, pStdin, pConsumed, pSink,
             pSuccess, pExit, pFinished>>

VARIABLES
    \* ---- start-up, the password dialog and the credential (specification SpecAuth)
    aPc,            \* "dialog" while pw_dlg.exec() runs, "main" once the window exists
    sudo_password,  \* the global _SUDO_PASSWORD
    hasSudo,        \* the host has a sudo executable
    pw_input,       \* the text in the dialog's input field
    error_lbl,      \* the dialog's error label
    auth_btn,       \* the Unlock button is enabled
    dlgResult,      \* "open", or how the dialog ended: "accepted", "rejected"
    keepalive_timer,\* the keepalive timer was started
    authOutcome,    \* what the last _try_auth met: "none", "notrun", "exit0",
                    \* "exitN", "timeout", "absent"
    authSecret,     \* the secret the last _try_auth read
    authRejected,   \* some _try_auth so far met a non-zero exit code
    refreshed       \* what the keepalive refresher fed to sudo: <<>> or <<input>>

authVars == <<aPc, sudo_password, hasSudo, pw_input, error_lbl, auth_btn, dlgResult,
              keepalive_timer, authOutcome, authSecret, authRejected, refreshed>>

VARIABLES
    \* ---- one LogoWorker and its thread pool (specification SpecPool)
    tpPc,       \* "created" once start() was called, "loop" in the as_completed
                \* loop, "shutdown" leaving the with block, "finished"
    tpNames,    \* the number of names, one fetch task each
    tpStop,     \* self._stop
    tpStarted,  \* fetch tasks a pool thread has begun, in the order submitted
    tpFinished, \* fetch tasks that have ended
    tpYielded,  \* finished tasks the loop has taken from as_completed
    tpEmitted   \* logo_ready emissions

poolVars == <<tpPc, tpNames, tpStop, tpStarted, tpFinished, tpYielded, tpEmitted>>

VARIABLES
    \* ---- one AppCard and the package it shows (specification SpecCard)
    cardPc,         \* "shown" once the card exists ("off" before)
    hostInstalled,  \* pacman's database holds the package
    card_installed, \* AppCard._installed
    action_btn,     \* the Install / Uninstall button is enabled
    cardMain,       \* the main thread: "loop" (event loop) or "started" (in
                    \* _install / _uninstall, past PkgDialog(...), before line 642 / 656)
    cardRunning,    \* number of PkgWorker threads started from the card and running
    cardJob,        \* the job the card started: "none", "install", "uninstall"
    cardSignal,     \* the job's finished_ok on its way to the card: <<>> or <<ok>>
    cardRan,        \* history: the jobs that ran to their end, with the flag they started from
    cardDone        \* the jobs the card has seen complete, in order

cardVars == <<cardPc, hostInstalled, card_installed, action_btn, cardMain, cardRunning,
              cardJob, cardSignal, cardRan, cardDone>>

VARIABLES
    \* ---- one call of search_offline (specification SpecOffline)
    oPc,        \* "call" before the call, "returned" or "raised" after it
    oQuery,     \* the argument
    oCorpus,    \* data/real_db.json
    oResult     \* the list returned

offVars == <<oPc, oQuery, oCorpus, oResult>>

VARIABLES
    \* ---- one run of the command-line search, src/main.py (specification SpecCli)
    cliPc,      \* "main", "load", "scan", "print", "exit", or "off"
    argv,       \* sys.argv[1:]
    cliCorpus,  \* data/real_db.json
    cliLoaded,  \* whether json.load was reached on the opened file
    cliAt,      \* position of the loop of line 20
    cliResults, \* results (line 17)
    cliOut,     \* what was printed, one tag per print call
    cliExit     \* the exit code of the process, in a sequence of at most one

cliVars == <<cliPc, argv, cliCorpus, cliLoaded, cliAt, cliResults, cliOut, cliExit>>

vars == <<mergeVars, guiVars, pkgVars, authVars, poolVars, cardVars, offVars, cliVars>>

-----------------------------------------------------------------------------
(* Bounds of the model *)

\* longest list of records a remote index answers with
MaxRecs == 2
\* longest "apps" list of the offline corpus
MaxApps == 2
\* number of searches perform_search accepts in one behaviour
MaxSearches == 2
\* number of lines a child process writes before it ends
MaxLines == 2
\* number of names one LogoWorker is given
MaxNames == 7
\* number of jobs started from one card
MaxJobs == 3
\* number of entries of a long corpus
MaxCorpus == 13

-----------------------------------------------------------------------------
(* Python strings *)

\* str.lower() on one character, for the letters the model uses
LowerChar(c) ==
    CASE c = "A" -> "a"
      [] c = "B" -> "b"
      [] c = "C" -> "c"
      [] c = "D" -> "d"
      [] c = "O" -> "o"
      [] c = "P" -> "p"
      [] c = "R" -> "r"
      [] c = "S" -> "s"
      [] c = "U" -> "u"
      [] c = "W" -> "w"
      [] OTHER -> c

\* str.lower()
Lower(s) == [i \in 1..Len(s) |-> LowerChar(s[i])]

\* the characters str.rstrip() and str.strip() remove
IsSpace(c) == c \in {" ", "\n", "\t", "\r"}

\* str.startswith(p)
StartsWith(s, p) == Len(p) <= Len(s) /\ SubSeq(s, 1, Len(p)) = p

\* str.endswith(p)
EndsWith(s, p) == Len(p) <= Len(s) /\ SubSeq(s, Len(s) - Len(p) + 1, Len(s)) = p

\* q in s  (substring test)
Contains(s, q) ==
    \E i \in 1..(Len(s) + 1) : i + Len(q) - 1 <= Len(s) /\ SubSeq(s, i, i + Len(q) - 1) = q

RECURSIVE RStrip(_)
\* str.rstrip()
RStrip(s) ==
    IF s # <<>> /\ IsSpace(s[Len(s)]) THEN RStrip(SubSeq(s, 1, Len(s) - 1)) ELSE s

RECURSIVE LStrip(_)
LStrip(s) ==
    IF s # <<>> /\ IsSpace(s[1]) THEN LStrip(Tail(s)) ELSE s

Strip_Keep(s) == s

\* str.strip()
Strip(s) == LStrip(RStrip(s))

\* list[:n]
Take(l, n) == SubSeq(l, 1, IF Len(l) < n THEN Len(l) ELSE n)

\* all sequences over S of length at most n
SeqUpTo(S, n) == UNION {[1..k -> S] : k \in 0..n}

-----------------------------------------------------------------------------
(* JSON values of the offline corpus *)

\* a field of a corpus entry: a string, absent, or present but not a string
JStr(s)  == [t |-> "str", v |-> s]
JAbsent  == [t |-> "absent", v |-> <<>>]
JNull    == [t |-> "null", v |-> <<>>]

\* Python's None, where a record field holds it
NoneVal == <<"None">>

\* dict.get(key, default) on a field
Get(f, default) ==
    IF f.t = "absent" THEN default ELSE IF f.t = "str" THEN f.v ELSE NoneVal

Wiki == <<"W", "i", "k", "i">>
NoDescription == <<"N", "o", " ", "d", "e", "s", "c", "r", "i", "p", "t", "i", "o", "n", ".">>
Official == <<"o", "f", "f", "i", "c", "i", "a", "l">>
AUR == <<"A", "U", "R">>

\* per-source cap on the records consumed from a remote answer ([:10])
OnlineCap == 10
\* cap on the offline matches (results[:12])
OfflineCap == 12

\* x.lower() raises AttributeError when x is not a str
FieldRaises(f) == f.t = "null"

MatchApp_NameOnly(q, app) ==
    IF ~app.obj THEN "raise"
    ELSE IF FieldRaises(app.name) THEN "raise"
    ELSE IF Contains(Lower(Get(app.name, <<>>)), q) THEN "match"
    ELSE "nomatch"

\* the condition of lines 90-92 on one entry: "raise", "match" or "nomatch";
\* the three operands are evaluated left to right and `or` short-circuits
MatchApp(q, app) ==
    IF ~app.obj THEN "raise"                      \* app.get on a non-object
    ELSE IF FieldRaises(app.name) THEN "raise"
    ELSE IF Contains(Lower(Get(app.name, <<>>)), q) THEN "match"
    ELSE IF FieldRaises(app.desc) THEN "raise"
    ELSE IF Contains(Lower(Get(app.desc, <<>>)), q) THEN "match"
    ELSE IF FieldRaises(app.category) THEN "raise"
    ELSE IF Contains(Lower(Get(app.category, <<>>)), q) THEN "match"
    ELSE "nomatch"

\* the record appended at lines 93-98
OfflineRecord(app) ==
    [name   |-> Get(app.name, <<>>),
     repo   |-> Get(app.category, Wiki),
     desc   |-> Get(app.desc, NoDescription),
     source |-> "offline"]

RECURSIVE ScanApps(_, _, _)
\* the loop of lines 89-98 over the entries left, with the matches so far
ScanApps(q, apps, acc) ==
    IF apps = <<>> THEN [raised |-> FALSE, recs |-> acc]
    ELSE LET m == MatchApp(q, Head(apps)) IN
         IF m = "raise" THEN [raised |-> TRUE, recs |-> <<>>]
         ELSE ScanApps(q, Tail(apps),
                       IF m = "match" THEN Append(acc, OfflineRecord(Head(apps))) ELSE acc)

\* search_offline(query): raised, or the list returned
search_offline(query, corpus) ==
    IF corpus.kind = "absent" THEN [raised |-> FALSE, recs |-> <<>>]          \* line 80
    ELSE IF corpus.kind \in {"unreadable", "badjson"}
         THEN [raised |-> FALSE, recs |-> <<>>]                                \* line 85
    ELSE IF corpus.kind = "nonobject" THEN [raised |-> TRUE, recs |-> <<>>]    \* db.get
    ELSE LET r == ScanApps(Lower(query), corpus.apps, <<>>) IN
         IF r.raised THEN r ELSE [raised |-> FALSE, recs |-> Take(r.recs, OfflineCap)]

-----------------------------------------------------------------------------
(* SearchWorker.run *)

PrimaryRecords_AnyStatus(out) ==
    LET l == Take(out.recs, OnlineCap) IN
    [i \in 1..Len(l) |->
       [name |-> l[i].name, repo |-> l[i].repo, desc |-> NoDescription,
        source |-> "online"]]

\* lines 118-131: the records the primary index adds to results
PrimaryRecords(out) ==
    IF out.kind = "ok"
    THEN LET l == Take(out.recs, OnlineCap) IN
         [i \in 1..Len(l) |->
            [name |-> l[i].name, repo |-> l[i].repo, desc |-> NoDescription,
             source |-> "online"]]
    ELSE <<>>

\* lines 133-146: the records the community index adds to results
AurRecords(out) ==
    IF out.kind = "ok"
    THEN LET l == Take(out.recs, OnlineCap) IN
         [i \in 1..Len(l) |->
            [name |-> l[i].name, repo |-> AUR, desc |-> NoDescription,
             source |-> "online"]]
    ELSE <<>>

\* the lowercased names of a list of records
LowerNames(l) == {Lower(l[i].name) : i \in 1..Len(l)}

OnlineNames_NoLower(results) == {results[i].name : i \in 1..Len(results)}

\* line 148
OnlineNames(results) == {Lower(results[i].name) : i \in 1..Len(results)}

\* line 150: the offline record is kept
KeepOffline(pkg, online_names) == Lower(pkg.name) \notin online_names

RECURSIVE FilterOffline(_, _)
FilterOffline(recs, online_names) ==
    IF recs = <<>> THEN <<>>
    ELSE IF KeepOffline(Head(recs), online_names)
         THEN <<Head(recs)>> \o FilterOffline(Tail(recs), online_names)
         ELSE FilterOffline(Tail(recs), online_names)

MergeOffline_OfflineFirst(results, offline) ==
    FilterOffline(offline, OnlineNames(results)) \o results

\* lines 148-151: results after the offline records are merged in
MergeOffline(results, offline) == results \o FilterOffline(offline, OnlineNames(results))

\* the whole of run: whether results_ready is emitted, and with which list
SearchWorkerRun(query, primary, aur, corpus) ==
    LET online == PrimaryRecords(primary) \o AurRecords(aur)
        off    == search_offline(query, corpus)
    IN IF off.raised THEN [emitted |-> FALSE, results |-> <<>>]
       ELSE [emitted |-> TRUE, results |-> MergeOffline(online, off.recs)]

-----------------------------------------------------------------------------
(* Inputs of one run *)

A  == <<"a">>
UA == <<"A">>
B  == <<"b">>
Extra == <<"e", "x", "t", "r", "a">>

\* records a remote index can answer with
RawRecs == {[name |-> A, repo |-> Extra], [name |-> UA, repo |-> Extra]}

\* "exc": requests.get raised (timeout, no network); "status": an answer whose
\* status is not 200, whatever its body holds; "ok": status 200 with its results
RemoteOutcomes ==
    {[kind |-> "exc", recs |-> <<>>]}
    \cup {[kind |-> "status", recs |-> l] : l \in SeqUpTo({[name |-> A, repo |-> Extra]}, 1)}
    \cup {[kind |-> "ok", recs |-> l] : l \in SeqUpTo(RawRecs, MaxRecs)}

JObj(n, d, c) == [obj |-> TRUE, name |-> n, desc |-> d, category |-> c]

\* entries of the corpus: two well-formed ones, one whose name is not a
\* string, one that is not an object
CorpusEntries ==
    {JObj(JStr(A), JStr(<<"x">>), JStr(<<"G">>)),
     JObj(JStr(B), JStr(<<"a", "b">>), JAbsent),
     JObj(JNull, JStr(<<"x">>), JStr(<<"G">>)),
     [obj |-> FALSE, name |-> JAbsent, desc |-> JAbsent, category |-> JAbsent]}

CorpusStates ==
    {[kind |-> k, apps |-> <<>>] : k \in {"absent", "unreadable", "badjson", "nonobject"}}
    \cup {[kind |-> "apps", apps |-> l] : l \in SeqUpTo(CorpusEntries, MaxApps)}

Queries == {A, <<"B">>}

-----------------------------------------------------------------------------
(* SpecMerge: one run of SearchWorker.run *)

MergeStart ==
    /\ mPc = "primary"
    /\ mQuery \in Queries
    /\ mPrimary \in RemoteOutcomes
    /\ mAur \in RemoteOutcomes
    /\ mCorpus \in CorpusStates
    /\ mResults = <<>>
    /\ mEmitted = <<>>
    /\ mRaised = FALSE

\* lines 118-131
RunPrimary ==
    /\ mPc = "primary"
    /\ mResults' = mResults \o PrimaryRecords(mPrimary)
    /\ mPc' = "aur"
    /\ UNCHANGED <<mQuery, mPrimary, mAur, mCorpus, mEmitted, mRaised>>
    /\ UNCHANGED <<guiVars, pkgVars, authVars, poolVars, cardVars, offVars, cliVars>>

\* lines 133-146
RunAur ==
    /\ mPc = "aur"
    /\ mResults' = mResults \o AurRecords(mAur)
    /\ mPc' = "offline"
    /\ UNCHANGED <<mQuery, mPrimary, mAur, mCorpus, mEmitted, mRaised>>
    /\ UNCHANGED <<guiVars, pkgVars, authVars, poolVars, cardVars, offVars, cliVars>>

\* lines 148-153
RunOffline ==
    /\ mPc = "offline"
    /\ LET off == search_offline(mQuery, mCorpus) IN
       IF off.raised
       THEN /\ mRaised' = TRUE
            /\ UNCHANGED <<mResults, mEmitted>>
       ELSE /\ mResults' = MergeOffline(mResults, off.recs)
            /\ mEmitted' = Append(mEmitted, mResults')
            /\ mRaised' = FALSE
    /\ mPc' = "done"
    /\ UNCHANGED <<mQuery, mPrimary, mAur, mCorpus>>
    /\ UNCHANGED <<guiVars, pkgVars, authVars, poolVars, cardVars, offVars, cliVars>>

-----------------------------------------------------------------------------
(* PkgWorker.run and run_sudo: one install or uninstall job *)

SudoTag == <<"[", "s", "u", "d", "o", "]">>
PasswordMarker == <<"p", "a", "s", "s", "w", "o", "r", "d", ":">>

\* the password the host's sudo accepts, and the cached credential of a job
\* that runs after the dialog was answered with it
SudoPassword == <<"p", "w">>

\* lines a child process can write to its stdout
ChildLines ==
    {<<"[", "s", "u", "d", "o", "]", " ", "p", ":", "\n">>,
     <<"[", "S", "U", "D", "O", "]", " ", "x", "\n">>,
     <<"p", "a", "s", "s", "w", "o", "r", "d", ":", " ", "\n">>,
     <<"P", "a", "s", "s", "w", "o", "r", "d", ":", "\n">>,
     <<" ", "[", "s", "u", "d", "o", "]", "\n">>,
     <<"o", "k", "\n">>}

\* an output_line emission: a message of the worker itself, or a child line
WorkerLine(tag) == [src |-> "worker", text |-> <<tag>>]
ChildLine(text) == [src |-> "child", text |-> text]

HidePromptSudo_NoMarker(stripped) == StartsWith(Lower(stripped), SudoTag)

\* run_sudo, line 235: the line is sudo's prompt echo
HidePromptSudo(stripped) ==
    StartsWith(Lower(stripped), SudoTag) \/ EndsWith(stripped, PasswordMarker)

\* PkgWorker.run, line 293: the same test in the AUR branch
HidePromptHelper(stripped) ==
    StartsWith(Lower(stripped), SudoTag) \/ EndsWith(stripped, PasswordMarker)

WhichPacman_Found(host) == TRUE

\* shutil.which("pacman") (lines 257, 302)
WhichPacman(host) == host.pacman

ExitOk_Always(returncode) == TRUE

\* proc.returncode == 0 (lines 239, 297)
ExitOk(returncode) == returncode = 0

\* run_sudo, line 217
SudoCmd(cmd) == <<"sudo", "-S", "-k">> \o cmd

PkgStart ==
    /\ pPc = "start"
    /\ pJob \in [pkg_name : {"gimp"}, is_aur : BOOLEAN, uninstall : BOOLEAN]
    /\ pHost \in [pacman : BOOLEAN, yay : BOOLEAN, paru : BOOLEAN]
    /\ pWhich = <<>>
    /\ pPath = ""
    /\ pCmd = <<>>
    /\ pSpawned = <<>>
    /\ pStdin = <<>>
    /\ pConsumed = <<>>
    /\ pSink = <<>>
    /\ pSuccess = FALSE
    /\ pExit = <<>>
    /\ pFinished = <<>>

\* no job
PkgIdle ==
    /\ pPc = "off"
    /\ pJob = [pkg_name |-> "gimp", is_aur |-> FALSE, uninstall |-> FALSE]
    /\ pHost = [pacman |-> TRUE, yay |-> TRUE, paru |-> TRUE]
    /\ pWhich = <<>>
    /\ pPath = ""
    /\ pCmd = <<>>
    /\ pSpawned = <<>>
    /\ pStdin = <<>>
    /\ pConsumed = <<>>
    /\ pSink = <<>>
    /\ pSuccess = FALSE
    /\ pExit = <<>>
    /\ pFinished = <<>>

UsesPacman_ByRepo(job) == ~job.is_aur

\* the branches of PkgWorker.run that go through pacman: uninstall (line 256)
\* and the install of a package that is not from the AUR (lines 270, 301)
UsesPacman(job) == job.uninstall \/ ~job.is_aur

WhichHelper_ParuFirst(host) ==
    IF host.paru THEN "paru" ELSE IF host.yay THEN "yay" ELSE ""

\* shutil.which("yay") or shutil.which("paru") (line 271): "" when neither
WhichHelper(host) == IF host.yay THEN "yay" ELSE IF host.paru THEN "paru" ELSE ""

\* the names line 271 asks shutil.which for: paru only when yay is not found
HelperLookups(host) == IF host.yay THEN <<"yay">> ELSE <<"yay", "paru">>

\* PkgWorker.run up to the spawn: lines 256-263 (uninstall), 270-277 (AUR
\* install), 302-309 (repository install), with line 218 of run_sudo
PkgBegin ==
    /\ pPc = "start"
    /\ IF UsesPacman(pJob)
       THEN /\ pWhich' = Append(pWhich, "pacman")
            /\ IF ~WhichPacman(pHost)
               THEN /\ pSink' = Append(pSink, WorkerLine("pacman not found"))
                    /\ pFinished' = Append(pFinished, FALSE)
                    /\ pPc' = "done"
                    /\ UNCHANGED <<pPath, pCmd>>
               ELSE /\ pPath' = "sudo"
                    /\ pCmd' = SudoCmd(<<"pacman",
                                         IF pJob.uninstall THEN "-Rns" ELSE "-S",
                                         "--noconfirm", pJob.pkg_name>>)
                    /\ pSink' = Append(pSink, WorkerLine("Running: sudo"))
                    /\ pPc' = "spawn"
                    /\ UNCHANGED pFinished
       ELSE /\ pWhich' = pWhich \o HelperLookups(pHost)
            /\ IF WhichHelper(pHost) = ""
               THEN /\ pSink' = Append(pSink, WorkerLine("No AUR helper found"))
                    /\ pFinished' = Append(pFinished, FALSE)
                    /\ pPc' = "done"
                    /\ UNCHANGED <<pPath, pCmd>>
               ELSE /\ pPath' = "helper"
                    /\ pCmd' = <<WhichHelper(pHost), "-S", "--noconfirm", pJob.pkg_name>>
                    /\ pSink' = Append(pSink, WorkerLine("Running: helper"))
                    /\ pPc' = "spawn"
                    /\ UNCHANGED pFinished
    /\ UNCHANGED <<pJob, pHost, pSpawned, pStdin, pConsumed, pSuccess, pExit>>
    /\ UNCHANGED <<mergeVars, guiVars, authVars, poolVars, cardVars, offVars, cliVars>>

\* the except branch (lines 240-242, 298-300)
PkgRaise ==
    /\ pSink' = Append(pSink, WorkerLine("Error"))
    /\ pSuccess' = FALSE
    /\ pPc' = "finish"

\* subprocess.Popen (lines 220-227, 279-287): the child starts, or Popen raises
PkgSpawn ==
    /\ pPc = "spawn"
    /\ \/ /\ pSpawned' = Append(pSpawned, pCmd)
          /\ pPc' = "feed"
          /\ UNCHANGED <<pSink, pSuccess>>
       \/ /\ PkgRaise
          /\ UNCHANGED pSpawned
    /\ UNCHANGED <<pJob, pHost, pWhich, pPath, pCmd, pStdin, pConsumed, pExit, pFinished>>
    /\ UNCHANGED <<mergeVars, guiVars, authVars, poolVars, cardVars, offVars, cliVars>>

\* the password is written to stdin, which is flushed and closed (lines 229-231,
\* 288-290); or the write, line-buffered, raises because the child has already
\* closed its end, and the except branch is taken with stdin left as it is
PkgFeed ==
    /\ pPc = "feed"
    /\ \/ /\ pStdin' = pStdin \o <<[op |-> "write", data |-> sudo_password \o <<"\n">>],
                                   [op |-> "flush", data |-> <<>>],
                                   [op |-> "close", data |-> <<>>]>>
          /\ pPc' = "read"
          /\ UNCHANGED <<pSink, pSuccess>>
       \/ /\ PkgRaise
          /\ pStdin' = Append(pStdin, [op |-> "write", data |-> sudo_password \o <<"\n">>])
    /\ UNCHANGED <<pJob, pHost, pWhich, pPath, pCmd, pSpawned, pConsumed, pExit, pFinished>>
    /\ UNCHANGED <<mergeVars, guiVars, authVars, poolVars, cardVars, offVars, cliVars>>

\* one turn of the loop over proc.stdout (lines 232-237, 291-295)
PkgReadLine ==
    /\ pPc = "read"
    /\ Len(pConsumed) < MaxLines
    /\ \E line \in ChildLines :
          LET stripped == RStrip(line)
              hide == IF pPath = "sudo" THEN HidePromptSudo(stripped)
                                        ELSE HidePromptHelper(stripped)
          IN /\ pConsumed' = Append(pConsumed, line)
             /\ pSink' = IF hide THEN pSink ELSE Append(pSink, ChildLine(stripped))
    /\ UNCHANGED <<pPc, pJob, pHost, pWhich, pPath, pCmd, pSpawned, pStdin, pSuccess, pExit,
                   pFinished>>
    /\ UNCHANGED <<mergeVars, guiVars, authVars, poolVars, cardVars, offVars, cliVars>>

\* reading the child's output raises (a line that does not decode)
PkgReadRaise ==
    /\ pPc = "read"
    /\ PkgRaise
    /\ UNCHANGED <<pJob, pHost, pWhich, pPath, pCmd, pSpawned, pStdin, pConsumed, pExit,
                   pFinished>>
    /\ UNCHANGED <<mergeVars, guiVars, authVars, poolVars, cardVars, offVars, cliVars>>

\* end of the child's output: proc.wait() and the exit code (lines 238-239,
\* 296-297)
PkgWait ==
    /\ pPc = "read"
    /\ \E returncode \in {0, 1} :
          /\ pExit' = <<returncode>>
          /\ pSuccess' = ExitOk(returncode)
    /\ pPc' = "finish"
    /\ UNCHANGED <<pJob, pHost, pWhich, pPath, pCmd, pSpawned, pStdin, pConsumed, pSink,
                   pFinished>>
    /\ UNCHANGED <<mergeVars, guiVars, authVars, poolVars, cardVars, offVars, cliVars>>

PkgFinish_Silent ==
    /\ pPc = "finish"
    /\ pSink' = Append(pSink, WorkerLine(IF pSuccess THEN "done" ELSE "failed"))
    /\ pPc' = "done"
    /\ UNCHANGED <<pJob, pHost, pWhich, pPath, pCmd, pSpawned, pStdin, pConsumed, pSuccess,
                   pExit, pFinished>>
    /\ UNCHANGED <<mergeVars, guiVars, authVars, poolVars, cardVars, offVars, cliVars>>

\* the closing message and finished_ok (lines 265-268, 310-313)
PkgFinish ==
    /\ pPc = "finish"
    /\ pSink' = Append(pSink, WorkerLine(IF pSuccess THEN "done" ELSE "failed"))
    /\ pFinished' = Append(pFinished, pSuccess)
    /\ pPc' = "done"
    /\ UNCHANGED <<pJob, pHost, pWhich, pPath, pCmd, pSpawned, pStdin, pConsumed, pSuccess,
                   pExit>>
    /\ UNCHANGED <<mergeVars, guiVars, authVars, poolVars, cardVars, offVars, cliVars>>

-----------------------------------------------------------------------------
(* __main__: the password dialog, the keepalive timer, the main window *)

WrongPassword == <<"x">>

\* what the user can have typed into the password field
Secrets == {<<>>, SudoPassword, WrongPassword}

\* no start-up: a credential is cached, as after an accepted dialog
AuthIdle ==
    /\ aPc = "off"
    /\ sudo_password = SudoPassword
    /\ hasSudo = TRUE
    /\ pw_input = <<>>
    /\ error_lbl = ""
    /\ auth_btn = TRUE
    /\ dlgResult = "accepted"
    /\ keepalive_timer = FALSE
    /\ authOutcome = "none"
    /\ authSecret = <<>>
    /\ authRejected = FALSE
    /\ refreshed = <<>>

\* module load (line 209) and PasswordDialog() (line 1139)
AuthStart ==
    /\ aPc = "dialog"
    /\ sudo_password = <<>>
    /\ hasSudo \in BOOLEAN
    /\ pw_input = <<>>
    /\ error_lbl = ""
    /\ auth_btn = TRUE
    /\ dlgResult = "open"
    /\ keepalive_timer = FALSE
    /\ authOutcome = "none"
    /\ authSecret = <<>>
    /\ authRejected = FALSE
    /\ refreshed = <<>>

\* the user edits the password field
TypePassword ==
    /\ dlgResult = "open"
    /\ \E text \in Secrets : pw_input' = text
    /\ pw_input' # pw_input
    /\ UNCHANGED <<aPc, sudo_password, hasSudo, error_lbl, auth_btn, dlgResult,
                   keepalive_timer, authOutcome, authSecret, authRejected, refreshed>>
    /\ UNCHANGED <<mergeVars, guiVars, pkgVars, poolVars, cardVars, offVars, cliVars>>

\* the exit code of `sudo -S -k true` fed pw (lines 1089-1095)
CheckExit(pw) == IF pw = SudoPassword THEN 0 ELSE 1

StoresOn_Any(returncode) == TRUE

\* line 1096
StoresOn(returncode) == returncode = 0

\* set_sudo_password(pw); self.accept() (lines 1097-1098, 1111-1112)
AuthAccept(pw) ==
    /\ sudo_password' = pw
    /\ dlgResult' = "accepted"
    /\ auth_btn' = FALSE
    /\ UNCHANGED <<pw_input, error_lbl>>

\* PasswordDialog._try_auth (lines 1077-1112), on Enter or Unlock
TryAuth ==
    /\ dlgResult = "open" /\ auth_btn
    /\ LET pw == pw_input IN
       /\ authSecret' = pw
       /\ IF pw = <<>>
          THEN /\ error_lbl' = "Please enter your password."
               /\ authOutcome' = "notrun"
               /\ UNCHANGED <<sudo_password, dlgResult, auth_btn, pw_input>>
          ELSE IF ~hasSudo
          THEN /\ authOutcome' = "absent"                      \* FileNotFoundError
               /\ AuthAccept(pw)
          ELSE \/ /\ authOutcome' = "timeout"                  \* TimeoutExpired
                  /\ error_lbl' = "Timed out. Try again."
                  /\ auth_btn' = TRUE
                  /\ UNCHANGED <<sudo_password, dlgResult, pw_input>>
               \/ IF StoresOn(CheckExit(pw))
                  THEN /\ authOutcome' = (IF CheckExit(pw) = 0 THEN "exit0" ELSE "exitN")
                       /\ AuthAccept(pw)
                  ELSE /\ authOutcome' = "exitN"
                       /\ error_lbl' = "Wrong password. Try again."
                       /\ pw_input' = <<>>
                       /\ auth_btn' = TRUE
                       /\ UNCHANGED <<sudo_password, dlgResult>>
    /\ authRejected' = (authRejected \/ authOutcome' = "exitN")
    /\ UNCHANGED <<aPc, hasSudo, keepalive_timer, refreshed>>
    /\ UNCHANGED <<mergeVars, guiVars, pkgVars, poolVars, cardVars, offVars, cliVars>>

\* the Skip button: self.reject (line 1052)
Skip ==
    /\ dlgResult = "open"
    /\ dlgResult' = "rejected"
    /\ UNCHANGED <<aPc, sudo_password, hasSudo, pw_input, error_lbl, auth_btn,
                   keepalive_timer, authOutcome, authSecret, authRejected, refreshed>>
    /\ UNCHANGED <<mergeVars, guiVars, pkgVars, poolVars, cardVars, offVars, cliVars>>

\* if _SUDO_PASSWORD (line 1144)
StartsKeepalive(pw) == pw # <<>>

StartMainWindow_NoWait ==
    /\ aPc = "dialog"
    /\ keepalive_timer' = StartsKeepalive(sudo_password)
    /\ aPc' = "main"
    /\ UNCHANGED <<sudo_password, hasSudo, pw_input, error_lbl, auth_btn, dlgResult,
                   authOutcome, authSecret, authRejected, refreshed>>
    /\ UNCHANGED <<mergeVars, guiVars, pkgVars, poolVars, cardVars, offVars, cliVars>>

\* pw_dlg.exec() has returned (line 1140): lines 1142-1149
StartMainWindow ==
    /\ aPc = "dialog" /\ dlgResult # "open"
    /\ keepalive_timer' = StartsKeepalive(sudo_password)
    /\ aPc' = "main"
    /\ UNCHANGED <<sudo_password, hasSudo, pw_input, error_lbl, auth_btn, dlgResult,
                   authOutcome, authSecret, authRejected, refreshed>>
    /\ UNCHANGED <<mergeVars, guiVars, pkgVars, poolVars, cardVars, offVars, cliVars>>

\* the timer fires: refresh (lines 1117-1126)
KeepaliveRefresh ==
    /\ aPc = "main" /\ keepalive_timer
    /\ refreshed' = <<sudo_password \o <<"\n">>>>
    /\ UNCHANGED <<aPc, sudo_password, hasSudo, pw_input, error_lbl, auth_btn, dlgResult,
                   keepalive_timer, authOutcome, authSecret, authRejected>>
    /\ UNCHANGED <<mergeVars, guiVars, pkgVars, poolVars, cardVars, offVars, cliVars>>

\* AppCard._install, AppCard._uninstall (lines 639-642, 653-656) and
\* PkgDialog.__init__ starting its worker (lines 400-403); one worker at a time
StartJob ==
    /\ aPc = "main"
    /\ pPc \in {"off", "done"}
    /\ pPc' = "start"
    /\ pJob' \in [pkg_name : {"gimp"}, is_aur : BOOLEAN, uninstall : BOOLEAN]
    /\ pWhich' = <<>>
    /\ pPath' = ""
    /\ pCmd' = <<>>
    /\ pSpawned' = <<>>
    /\ pStdin' = <<>>
    /\ pConsumed' = <<>>
    /\ pSink' = <<>>
    /\ pSuccess' = FALSE
    /\ pExit' = <<>>
    /\ pFinished' = <<>>
    /\ UNCHANGED pHost
    /\ UNCHANGED <<mergeVars, guiVars, authVars, poolVars, cardVars, offVars, cliVars>>

-----------------------------------------------------------------------------
(* LogoWorker.run: the thread pool and its fetch tasks *)

\* ThreadPoolExecutor(max_workers=6), line 173
MaxWorkers == 6

Min(a, b) == IF a <= b THEN a ELSE b

\* no LogoWorker
PoolIdle ==
    /\ tpPc = "off"
    /\ tpNames = 0
    /\ tpStop = FALSE
    /\ tpStarted = 0
    /\ tpFinished = 0
    /\ tpYielded = 0
    /\ tpEmitted = 0

\* LogoWorker(names, search_id) and start() (lines 163-167, 964-966)
PoolStart ==
    /\ tpPc = "created"
    /\ tpNames \in 1..MaxNames
    /\ tpStop = FALSE
    /\ tpStarted = 0
    /\ tpFinished = 0
    /\ tpYielded = 0
    /\ tpEmitted = 0

\* LogoWorker.stop (lines 169-170), called while the thread is running
PoolStop ==
    /\ tpPc \in {"created", "loop", "shutdown"}
    /\ ~tpStop
    /\ tpStop' = TRUE
    /\ UNCHANGED <<tpPc, tpNames, tpStarted, tpFinished, tpYielded, tpEmitted>>
    /\ UNCHANGED <<mergeVars, guiVars, pkgVars, authVars, cardVars, offVars, cliVars>>

\* the tasks that begin at once when run submits one task per name (lines
\* 173-174): the pool starts a thread per task up to max_workers, the rest
\* wait in its queue; _stop is not read
Submitted(stop, n) == Min(n, MaxWorkers)

\* run enters the with block and submits (lines 173-174)
PoolSubmit ==
    /\ tpPc = "created"
    /\ tpStarted' = Submitted(tpStop, tpNames)
    /\ tpPc' = "loop"
    /\ UNCHANGED <<tpNames, tpStop, tpFinished, tpYielded, tpEmitted>>
    /\ UNCHANGED <<mergeVars, guiVars, pkgVars, authVars, cardVars, offVars, cliVars>>

\* a pool thread that ended a task takes the next one from the queue, if any;
\* neither _stop nor the shutdown of the pool (no cancel_futures) prevents it
TakesNext(stop, started, n) == started < n

\* a fetch_logo call ends (lines 21-38) and its thread goes on
PoolTaskDone ==
    /\ tpPc \in {"loop", "shutdown"}
    /\ tpFinished < tpStarted
    /\ tpFinished' = tpFinished + 1
    /\ tpStarted' = IF TakesNext(tpStop, tpStarted, tpNames)
                    THEN tpStarted + 1 ELSE tpStarted
    /\ UNCHANGED <<tpPc, tpNames, tpStop, tpYielded, tpEmitted>>
    /\ UNCHANGED <<mergeVars, guiVars, pkgVars, authVars, cardVars, offVars, cliVars>>

\* a turn of the as_completed loop (lines 175-184)
PoolYield ==
    /\ tpPc = "loop"
    /\ tpYielded < tpFinished
    /\ IF tpStop
       THEN /\ tpPc' = "shutdown"                                    \* break
            /\ UNCHANGED <<tpYielded, tpEmitted>>
       ELSE /\ tpYielded' = tpYielded + 1
            /\ \E px \in BOOLEAN : tpEmitted' = IF px THEN tpEmitted + 1 ELSE tpEmitted
            /\ UNCHANGED tpPc
    /\ UNCHANGED <<tpNames, tpStop, tpStarted, tpFinished>>
    /\ UNCHANGED <<mergeVars, guiVars, pkgVars, authVars, cardVars, offVars, cliVars>>

\* as_completed is exhausted: the loop ends
PoolLoopEnd ==
    /\ tpPc = "loop"
    /\ tpYielded = tpNames
    /\ tpPc' = "shutdown"
    /\ UNCHANGED <<tpNames, tpStop, tpStarted, tpFinished, tpYielded, tpEmitted>>
    /\ UNCHANGED <<mergeVars, guiVars, pkgVars, authVars, cardVars, offVars, cliVars>>

\* the with block is left once every task has ended (shutdown(wait=True)), and
\* run returns
PoolExit ==
    /\ tpPc = "shutdown"
    /\ tpFinished = tpNames
    /\ tpPc' = "finished"
    /\ UNCHANGED <<tpNames, tpStop, tpStarted, tpFinished, tpYielded, tpEmitted>>
    /\ UNCHANGED <<mergeVars, guiVars, pkgVars, authVars, cardVars, offVars, cliVars>>

-----------------------------------------------------------------------------
(* AppCard: the installed flag and the jobs started from the card *)

\* is_installed (lines 191-201): pacman -Q exits zero
is_installed(installed) == installed

\* no card
CardIdle ==
    /\ cardPc = "off"
    /\ hostInstalled = FALSE
    /\ card_installed = FALSE
    /\ action_btn = FALSE
    /\ cardMain = "loop"
    /\ cardRunning = 0
    /\ cardJob = "none"
    /\ cardSignal = <<>>
    /\ cardRan = <<>>
    /\ cardDone = <<>>

\* AppCard.__init__ (lines 441-452, 578): the flag is queried before display
CardStart ==
    /\ cardPc = "shown"
    /\ hostInstalled \in BOOLEAN
    /\ card_installed = is_installed(hostInstalled)
    /\ action_btn = TRUE
    /\ cardMain = "loop"
    /\ cardRunning = 0
    /\ cardJob = "none"
    /\ cardSignal = <<>>
    /\ cardRan = <<>>
    /\ cardDone = <<>>

\* the package is installed or removed outside the application
HostChange ==
    /\ cardPc = "shown"
    /\ hostInstalled' = ~hostInstalled
    /\ UNCHANGED <<cardPc, card_installed, action_btn, cardMain, cardRunning, cardJob,
                   cardSignal, cardRan, cardDone>>
    /\ UNCHANGED <<mergeVars, guiVars, pkgVars, authVars, poolVars, offVars, cliVars>>

\* a click on the enabled action button: AppCard._on_action, then _install or
\* _uninstall up to the end of PkgDialog(...), which starts the worker
\* (lines 633-641, 653-655, 399-403)
CardAction ==
    /\ cardPc = "shown"
    /\ cardMain = "loop"
    /\ action_btn
    /\ Len(cardRan) + cardRunning < MaxJobs
    /\ cardJob' = IF card_installed THEN "uninstall" ELSE "install"
    /\ cardRunning' = cardRunning + 1
    /\ cardMain' = "started"
    /\ UNCHANGED <<cardPc, hostInstalled, card_installed, action_btn, cardSignal,
                   cardRan, cardDone>>
    /\ UNCHANGED <<mergeVars, guiVars, pkgVars, authVars, poolVars, offVars, cliVars>>

ButtonDuringJob_Enabled == TRUE

\* action_btn.setEnabled(False) (lines 642, 656)
ButtonDuringJob == FALSE

\* the rest of _install / _uninstall (lines 642-645, 656-659): the button is
\* disabled and the card's slot is connected to the worker's finished_ok
CardConnect ==
    /\ cardMain = "started"
    /\ action_btn' = ButtonDuringJob
    /\ cardMain' = "loop"
    /\ UNCHANGED <<cardPc, hostInstalled, card_installed, cardRunning, cardJob,
                   cardSignal, cardRan, cardDone>>
    /\ UNCHANGED <<mergeVars, guiVars, pkgVars, authVars, poolVars, offVars, cliVars>>

\* the job runs to its end (PkgWorker.run, lines 255-313): when it succeeds the
\* package is installed or removed, when it fails the host is as it was. Its
\* finished_ok reaches the slots connected when it is emitted: the card's slot
\* is not among them while the main thread has not reached line 645 / 659
CardJobRun ==
    /\ cardRunning > 0
    /\ \E success \in BOOLEAN :
          /\ cardSignal' = IF cardMain = "started" THEN cardSignal ELSE <<success>>
          /\ hostInstalled' = IF success THEN cardJob = "install" ELSE hostInstalled
          /\ cardRan' = Append(cardRan, [job |-> cardJob, success |-> success,
                                         flag |-> card_installed])
    /\ cardRunning' = cardRunning - 1
    /\ UNCHANGED <<cardPc, card_installed, action_btn, cardMain, cardJob, cardDone>>
    /\ UNCHANGED <<mergeVars, guiVars, pkgVars, authVars, poolVars, offVars, cliVars>>

\* the flag after a job: lines 648-649 and 662-663
FlagAfterJob(job, success, flag, installed) ==
    IF success THEN job = "install" ELSE flag

\* AppCard._install_done, AppCard._uninstall_done (lines 647-651, 661-665),
\* run by the event loop
CardJobDone ==
    /\ cardMain = "loop"
    /\ cardSignal # <<>>
    /\ card_installed' = FlagAfterJob(cardJob, cardSignal[1], card_installed, hostInstalled)
    /\ action_btn' = TRUE
    /\ cardDone' = Append(cardDone, <<cardJob, cardSignal[1]>>)
    /\ cardJob' = "none"
    /\ cardSignal' = <<>>
    /\ UNCHANGED <<cardPc, hostInstalled, cardMain, cardRunning, cardRan>>
    /\ UNCHANGED <<mergeVars, guiVars, pkgVars, authVars, poolVars, offVars, cliVars>>

-----------------------------------------------------------------------------
(* The command-line search, src/main.py *)

\* cap on the results printed (results[:15])
PrintCap == 15

\* " ".join(args)
RECURSIVE Join(_)
Join(args) ==
    IF args = <<>> THEN <<>>
    ELSE IF Len(args) = 1 THEN args[1]
    ELSE args[1] \o <<" ">> \o Join(Tail(args))

\* app[key] raises KeyError on a missing key; `in` and .lower() raise on None
SubscriptRaises(f) == f.t # "str"

\* the condition of line 21 on one entry: the name is compared as it is, the
\* description and the category lowercased; `or` short-circuits
CliMatch(q, app) ==
    IF ~app.obj THEN "raise"
    ELSE IF SubscriptRaises(app.name) THEN "raise"
    ELSE IF Contains(app.name.v, q) THEN "match"
    ELSE IF SubscriptRaises(app.desc) THEN "raise"
    ELSE IF Contains(Lower(app.desc.v), q) THEN "match"
    ELSE IF SubscriptRaises(app.category) THEN "raise"
    ELSE IF Contains(Lower(app.category.v), q) THEN "match"
    ELSE "nomatch"

\* lines 29-30 on one result: app['name'] and app['category'] are formatted,
\* app['desc'] is sliced
PrintRaises(app) ==
    \/ app.name.t = "absent"
    \/ app.category.t = "absent"
    \/ SubscriptRaises(app.desc)

CliEntries ==
    CorpusEntries \cup {JObj(JStr(UA), JStr(<<"x">>), JStr(<<"G">>)),
                        JObj(JStr(B), JAbsent, JStr(<<"G">>))}

CliCorpora ==
    {[kind |-> k, apps |-> <<>>] : k \in {"absent", "unreadable", "badjson", "nonobject"}}
    \cup {[kind |-> "apps", apps |-> l] : l \in SeqUpTo(CliEntries, MaxApps)}

CliArgs == {<<>>, <<A>>, <<UA>>, <<A, B>>}

\* no run
CliIdle ==
    /\ cliPc = "off"
    /\ argv = <<>>
    /\ cliCorpus = [kind |-> "absent", apps |-> <<>>]
    /\ cliLoaded = FALSE
    /\ cliAt = 1
    /\ cliResults = <<>>
    /\ cliOut = <<>>
    /\ cliExit = <<>>

CliStart ==
    /\ cliPc = "main"
    /\ argv \in CliArgs
    /\ cliCorpus \in CliCorpora
    /\ cliLoaded = FALSE
    /\ cliAt = 1
    /\ cliResults = <<>>
    /\ cliOut = <<>>
    /\ cliExit = <<>>

\* the process ends: code 1 on an uncaught exception, 0 otherwise
CliEnd(code) ==
    /\ cliPc' = "exit"
    /\ cliExit' = <<code>>

\* __main__ (lines 38-45)
CliMain ==
    /\ cliPc = "main"
    /\ IF Len(argv) < 1                                   \* len(sys.argv) < 2
       THEN /\ cliOut' = cliOut \o <<"usage", "example">>
            /\ CliEnd(0)
       ELSE /\ cliPc' = "load"
            /\ UNCHANGED <<cliOut, cliExit>>
    /\ UNCHANGED <<argv, cliCorpus, cliLoaded, cliAt, cliResults>>
    /\ UNCHANGED <<mergeVars, guiVars, pkgVars, authVars, poolVars, cardVars, offVars>>

\* search_arch_wiki, lines 9-14: only FileNotFoundError is handled
CliLoad ==
    /\ cliPc = "load"
    /\ cliLoaded' = (cliCorpus.kind \in {"badjson", "nonobject", "apps"})
    /\ IF cliCorpus.kind = "absent"
       THEN /\ cliOut' = Append(cliOut, "error")
            /\ CliEnd(0)
       ELSE IF cliCorpus.kind \in {"unreadable", "badjson"}
       THEN /\ CliEnd(1)
            /\ UNCHANGED cliOut
       ELSE /\ cliPc' = "scan"
            /\ UNCHANGED <<cliOut, cliExit>>
    /\ UNCHANGED <<argv, cliCorpus, cliAt, cliResults>>
    /\ UNCHANGED <<mergeVars, guiVars, pkgVars, authVars, poolVars, cardVars, offVars>>

\* one turn of the loop of lines 20-22, or its end
CliScan ==
    /\ cliPc = "scan"
    /\ LET query == Lower(Join(argv)) IN                  \* line 16
       IF cliCorpus.kind = "nonobject"                    \* db.get on a non-object
       THEN /\ CliEnd(1)
            /\ UNCHANGED <<cliAt, cliResults>>
       ELSE IF cliAt > Len(cliCorpus.apps)
       THEN /\ cliPc' = "print"
            /\ UNCHANGED <<cliAt, cliResults, cliExit>>
       ELSE LET m == CliMatch(query, cliCorpus.apps[cliAt]) IN
            IF m = "raise"
            THEN /\ CliEnd(1)
                 /\ UNCHANGED <<cliAt, cliResults>>
            ELSE /\ cliAt' = cliAt + 1
                 /\ cliResults' = IF m = "match"
                                  THEN Append(cliResults, cliCorpus.apps[cliAt])
                                  ELSE cliResults
                 /\ UNCHANGED <<cliPc, cliExit>>
    /\ UNCHANGED <<argv, cliCorpus, cliLoaded, cliOut>>
    /\ UNCHANGED <<mergeVars, guiVars, pkgVars, authVars, poolVars, cardVars, offVars>>

\* lines 24-36
CliPrint ==
    /\ cliPc = "print"
    /\ LET shown == Take(cliResults, PrintCap)
           bad   == {i \in 1..Len(shown) : PrintRaises(shown[i])}
           upto  == IF bad = {} THEN Len(shown)
                    ELSE (CHOOSE i \in bad : \A j \in bad : i <= j) - 1
       IN
       IF cliResults = <<>>
       THEN /\ cliOut' = Append(cliOut, "none")
            /\ CliEnd(0)
       ELSE /\ cliOut' = cliOut \o <<"found">> \o [i \in 1..upto |-> "result"]
            /\ CliEnd(IF bad = {} THEN 0 ELSE 1)
    /\ UNCHANGED <<argv, cliCorpus, cliLoaded, cliAt, cliResults>>
    /\ UNCHANGED <<mergeVars, guiVars, pkgVars, authVars, poolVars, cardVars, offVars>>

-----------------------------------------------------------------------------
(* search_offline on its own, with corpora long enough to meet the cap *)

\* one character per position, to tell the entries of a long corpus apart
Tags == <<"1", "2", "3", "4", "5", "6", "7", "8", "9", "x", "y", "z", "w", "v", "u">>

\* the entry at position i of a long corpus: one that holds "a" or "A" in its
\* name, its description or its category, in turn, or one that does not
LongEntry(i, hit) ==
    IF ~hit THEN JObj(JStr(B), JStr(<<Tags[i]>>), JStr(<<"G">>))
    ELSE IF i % 3 = 1 THEN JObj(JStr(<<"x", "A">>), JStr(<<Tags[i]>>), JAbsent)
    ELSE IF i % 3 = 2 THEN JObj(JStr(B), JStr(<<Tags[i], "a">>), JStr(<<"G">>))
    ELSE JObj(JAbsent, JStr(<<Tags[i]>>), JStr(<<"A", "x">>))

\* long corpora: every entry holds the query but at most two
LongCorpora ==
    UNION {{[kind |-> "apps", apps |-> [i \in 1..n |-> LongEntry(i, i \notin miss)]] :
               miss \in {m \in SUBSET (1..n) : Cardinality(m) <= 2}} : n \in 0..MaxCorpus}

\* no call
OfflineIdle ==
    /\ oPc = "off"
    /\ oQuery = <<>>
    /\ oCorpus = [kind |-> "absent", apps |-> <<>>]
    /\ oResult = <<>>

OfflineStart ==
    /\ oPc = "call"
    /\ oQuery \in {A, UA, B}
    /\ oCorpus \in LongCorpora \cup CorpusStates
    /\ oResult = <<>>

\* search_offline(query) (lines 76-99)
OfflineCall ==
    /\ oPc = "call"
    /\ LET r == search_offline(oQuery, oCorpus) IN
       /\ oPc' = IF r.raised THEN "raised" ELSE "returned"
       /\ oResult' = r.recs
    /\ UNCHANGED <<oQuery, oCorpus>>
    /\ UNCHANGED <<mergeVars, guiVars, pkgVars, authVars, poolVars, cardVars, cliVars>>

\* no run of the stand-alone worker
MergeIdle ==
    /\ mPc = "off"
    /\ mQuery = <<>>
    /\ mPrimary = [kind |-> "exc", recs |-> <<>>]
    /\ mAur = [kind |-> "exc", recs |-> <<>>]
    /\ mCorpus = [kind |-> "absent", apps |-> <<>>]
    /\ mResults = <<>>
    /\ mEmitted = <<>>
    /\ mRaised = FALSE

-----------------------------------------------------------------------------
(* The AuraStore window: perform_search, _on_results, _on_logo and the     *)
(* SearchWorker and LogoWorker threads.  A signal emitted by a worker      *)
(* thread is queued to the main thread; the handlers run there one at a    *)
(* time, in emission order.                                                *)

Gens == 1..MaxSearches

NoStatus == <<"init", 0>>

\* what the user can have typed into search_input
TypedQueries == {<<" ", "a", " ">>, <<" ">>, <<>>}

\* outcomes of the two remote requests during a session
GuiPrimary == {[kind |-> "exc", recs |-> <<>>],
               [kind |-> "ok", recs |-> <<[name |-> A, repo |-> Extra]>>]}
GuiAur     == {[kind |-> "exc", recs |-> <<>>],
               [kind |-> "ok", recs |-> <<[name |-> UA, repo |-> Extra]>>]}
GuiCorpus  == {[kind |-> "absent", apps |-> <<>>],
               [kind |-> "nonobject", apps |-> <<>>]}

NoWorker == [state |-> "none", query |-> <<>>, emitAt |-> 0]
NoLogoWorker == [state |-> "none", stop |-> FALSE, names |-> <<>>, task |-> <<>>, broke |-> FALSE]

GuiStart ==
    /\ search_id = 0
    /\ search_worker = 0
    /\ logo_worker = 0
    /\ cards = <<>>
    /\ results_layout = <<>>
    /\ cardObj = <<>>
    /\ status_lbl = NoStatus
    /\ loading = FALSE
    /\ sw = [g \in Gens |-> NoWorker]
    /\ lw = [g \in Gens |-> NoLogoWorker]
    /\ eventQ = <<>>
    /\ search_input = <<>>
    /\ delivered = <<>>

GuiInit == GuiStart /\ db_file \in GuiCorpus

\* the window is not open
GuiIdle == GuiStart /\ db_file = [kind |-> "absent", apps |-> <<>>]

Range(f) == {f[x] : x \in DOMAIN f}

\* a signal queued to the main thread, or the deferred deletion of widgets
Event(sig, gen, results, name, ids) ==
    [sig |-> sig, gen |-> gen, results |-> results, name |-> name, ids |-> ids]

\* the widgets on which deleteLater() is pending
doomed == UNION {eventQ[i].ids : i \in 1..Len(eventQ)}

\* AuraStore._clear (lines 896-901): the index is emptied at once, the widgets
\* of the layout are only scheduled for deletion, each of them once, by an
\* event posted to the main thread
ClearCards == << >>
ClearPost(queue) ==
    LET ids == Range(results_layout) \ doomed IN
    IF ids = {} THEN queue ELSE Append(queue, Event("delete", 0, <<>>, <<>>, ids))

\* LogoWorker.isRunning()
LogoRunning(g) == g # 0 /\ lw[g].state = "running"

StopLogoWorker_Never(l) == l

\* AuraStore._stop_logo_worker (lines 903-906): stop() then a wait of at most
\* 300 ms, after which the thread may still be running
StopLogoWorker(l) ==
    IF LogoRunning(logo_worker)
    THEN [l EXCEPT ![logo_worker].stop = TRUE]
    ELSE l

BumpSearchId_ByTwo(id) == id + 2

\* self._search_id += 1 (line 916)
BumpSearchId(id) == id + 1

\* AuraStore.perform_search (lines 910-926)
perform_search(text) ==
    LET query == Strip(text) IN
    IF query = <<>>
    THEN UNCHANGED <<search_id, search_worker, logo_worker, cards,        \* line 913
                     results_layout, cardObj, status_lbl, loading, sw, lw,
                     eventQ, db_file, delivered>>
    ELSE /\ search_id < MaxSearches
         /\ search_id' = BumpSearchId(search_id)
         /\ lw' = StopLogoWorker(lw)
         /\ cards' = ClearCards
         /\ eventQ' = ClearPost(eventQ)
         /\ loading' = TRUE
         /\ status_lbl' = <<"searching", 0>>
         /\ search_worker' = BumpSearchId(search_id)
         /\ sw' = [sw EXCEPT ![BumpSearchId(search_id)] =
                      [state |-> "running", query |-> query, emitAt |-> 0]]
         /\ UNCHANGED <<logo_worker, results_layout, cardObj, db_file, delivered>>

\* the user sets the text of the search field and presses Return or the
\* search button (lines 820, 824), or picks a suggestion (lines 893-894)
PerformSearch ==
    /\ \E text \in TypedQueries :
          /\ search_input' = text
          /\ perform_search(text)
    /\ UNCHANGED <<mergeVars, pkgVars, authVars, poolVars, cardVars, offVars, cliVars>>

\* SearchWorker.run (lines 115-153) of the worker of generation g, to its end:
\* it emits results_ready(search_id, results), or ends by an exception
SearchWorkerFinish(g) ==
    /\ sw[g].state = "running"
    /\ \E p \in GuiPrimary, a \in GuiAur :
          LET out == SearchWorkerRun(sw[g].query, p, a, db_file) IN
          IF out.emitted
          THEN /\ eventQ' = Append(eventQ, Event("results", g, out.results, <<>>, {}))
               /\ sw' = [sw EXCEPT ![g].state = "emitted", ![g].emitAt = search_id]
          ELSE /\ sw' = [sw EXCEPT ![g].state = "died"]
               /\ UNCHANGED eventQ
    /\ UNCHANGED <<search_id, search_worker, logo_worker, cards, results_layout,
                   cardObj, status_lbl, loading, lw, db_file, search_input, delivered>>
    /\ UNCHANGED <<mergeVars, pkgVars, authVars, poolVars, cardVars, offVars, cliVars>>

CardId(g, i) == <<g, i>>
MsgId(g) == <<g, 0>>

IsStaleResults_Never(gen) == FALSE

\* the generation check of _on_results (line 930)
IsStaleResults(gen) == gen # search_id

IsStaleLogo_Never(gen) == FALSE

\* the generation check of _on_logo (line 970)
IsStaleLogo(gen) == gen # search_id

\* _on_results (lines 945-952): the index after the cards were added; a later
\* card takes the key of an earlier one of the same lowercased name
CardIndex(g, results) ==
    [k \in LowerNames(results) |->
        CardId(g, CHOOSE i \in 1..Len(results) :
                     /\ Lower(results[i].name) = k
                     /\ \A j \in 1..Len(results) : Lower(results[j].name) = k => j <= i)]

\* AuraStore._start_logos (lines 963-966): a LogoWorker, its fetches submitted
NewLogoWorker(names) ==
    [state |-> "running", stop |-> FALSE, names |-> names,
     task |-> [i \in 1..Len(names) |-> "pending"], broke |-> FALSE]

\* AuraStore._on_results (lines 928-961), on the event at the head of the queue
OnResults ==
    /\ eventQ # <<>>
    /\ Head(eventQ).sig = "results"
    /\ LET e == Head(eventQ)
           g == e.gen
           n == Len(e.results)
           ids == {CardId(g, i) : i \in 1..n}
       IN
       /\ IF IsStaleResults(g)
          THEN /\ eventQ' = Tail(eventQ)
               /\ UNCHANGED <<search_id, search_worker, logo_worker, cards,
                              results_layout, cardObj, status_lbl, loading,
                              sw, lw, db_file, search_input, delivered>>
          ELSE /\ eventQ' = ClearPost(Tail(eventQ))
               /\ delivered' = Append(delivered, g)
               /\ loading' = FALSE
               /\ IF n = 0
                  THEN /\ results_layout' = Append(results_layout, MsgId(g))
                       /\ status_lbl' = <<"none", 0>>
                       /\ cards' = ClearCards
                       /\ UNCHANGED <<cardObj, logo_worker, lw>>
                  ELSE /\ results_layout' =
                             results_layout \o [i \in 1..n |-> CardId(g, i)]
                       /\ cardObj' =
                             [id \in (DOMAIN cardObj) \cup ids |->
                                 IF id \in ids
                                 THEN [name |-> e.results[id[2]].name,
                                       repo |-> e.results[id[2]].repo,
                                       source |-> e.results[id[2]].source,
                                       gen |-> g,
                                       logo |-> 0]
                                 ELSE cardObj[id]]
                       /\ cards' = CardIndex(g, e.results)
                       /\ status_lbl' = <<"found", n>>
                       /\ logo_worker' = g
                       /\ lw' = [lw EXCEPT ![g] =
                                    NewLogoWorker([i \in 1..n |-> e.results[i].name])]
               /\ UNCHANGED <<search_id, search_worker, sw, db_file, search_input>>
    /\ UNCHANGED <<mergeVars, pkgVars, authVars, poolVars, cardVars, offVars, cliVars>>

\* a turn of the as_completed loop (lines 175-177): the fetch of names[i] has
\* finished and the loop reads _stop
LogoYield(g, i) ==
    /\ lw[g].state = "running"
    /\ ~lw[g].broke
    /\ \A j \in DOMAIN lw[g].task : lw[g].task[j] # "checked"
    /\ lw[g].task[i] = "pending"
    /\ IF lw[g].stop
       THEN lw' = [lw EXCEPT ![g].broke = TRUE]                     \* line 177
       ELSE lw' = [lw EXCEPT ![g].task[i] = "checked"]
    /\ UNCHANGED <<search_id, search_worker, logo_worker, cards, results_layout,
                   cardObj, status_lbl, loading, sw, eventQ, db_file, search_input,
                   delivered>>
    /\ UNCHANGED <<mergeVars, pkgVars, authVars, poolVars, cardVars, offVars, cliVars>>

\* the rest of the turn (lines 178-184): the result of fetch_logo (lines 21-38)
\* is a pixmap, which is emitted, or None
LogoEmit(g, i) ==
    /\ lw[g].state = "running"
    /\ lw[g].task[i] = "checked"
    /\ \E px \in BOOLEAN :
          IF px
          THEN eventQ' = Append(eventQ, Event("logo", g, <<>>, lw[g].names[i], {}))
          ELSE UNCHANGED eventQ
    /\ lw' = [lw EXCEPT ![g].task[i] = "done"]
    /\ UNCHANGED <<search_id, search_worker, logo_worker, cards, results_layout,
                   cardObj, status_lbl, loading, sw, db_file, search_input, delivered>>
    /\ UNCHANGED <<mergeVars, pkgVars, authVars, poolVars, cardVars, offVars, cliVars>>

\* the end of LogoWorker.run: the loop is over, or was left at line 177
LogoWorkerExit(g) ==
    /\ lw[g].state = "running"
    /\ \/ lw[g].broke
       \/ \A i \in 1..Len(lw[g].task) : lw[g].task[i] = "done"
    /\ lw' = [lw EXCEPT ![g].state = "finished"]
    /\ UNCHANGED <<search_id, search_worker, logo_worker, cards, results_layout,
                   cardObj, status_lbl, loading, sw, eventQ, db_file, search_input,
                   delivered>>
    /\ UNCHANGED <<mergeVars, pkgVars, authVars, poolVars, cardVars, offVars, cliVars>>

\* AuraStore._on_logo (lines 968-974), on the event at the head of the queue
OnLogo ==
    /\ eventQ # <<>>
    /\ Head(eventQ).sig = "logo"
    /\ LET e == Head(eventQ)
           key == Lower(e.name)
           hit == ~IsStaleLogo(e.gen) /\ key \in DOMAIN cards
       IN
       /\ eventQ' = Tail(eventQ)
       /\ IF hit
          THEN cardObj' = [cardObj EXCEPT ![cards[key]].logo = e.gen]
          ELSE UNCHANGED cardObj
    /\ UNCHANGED <<search_id, search_worker, logo_worker, cards, results_layout,
                   status_lbl, loading, sw, lw, db_file, search_input, delivered>>
    /\ UNCHANGED <<mergeVars, pkgVars, authVars, poolVars, cardVars, offVars, cliVars>>

\* the event loop deletes the widgets deleteLater() was called on
DeferredDelete ==
    /\ eventQ # <<>>
    /\ Head(eventQ).sig = "delete"
    /\ LET gone == Head(eventQ).ids IN
       /\ results_layout' = SelectSeq(results_layout, LAMBDA w : w \notin gone)
       /\ cardObj' = [id \in (DOMAIN cardObj) \ gone |-> cardObj[id]]
    /\ eventQ' = Tail(eventQ)
    /\ UNCHANGED <<search_id, search_worker, logo_worker, cards, status_lbl,
                   loading, sw, lw, db_file, search_input, delivered>>
    /\ UNCHANGED <<mergeVars, pkgVars, authVars, poolVars, cardVars, offVars, cliVars>>

Init == GuiInit /\ MergeIdle /\ PkgIdle /\ AuthIdle /\ PoolIdle /\ CardIdle /\ OfflineIdle /\ CliIdle

Next ==
    \/ PerformSearch
    \/ \E g \in Gens : SearchWorkerFinish(g)
    \/ OnResults
    \/ \E g \in Gens : \E i \in DOMAIN lw[g].task : LogoYield(g, i)
    \/ \E g \in Gens : \E i \in DOMAIN lw[g].task : LogoEmit(g, i)
    \/ \E g \in Gens : LogoWorkerExit(g)
    \/ OnLogo
    \/ DeferredDelete

Spec == Init /\ [][Next]_vars

\* what the scheduling guarantees: a started thread runs to its end
\* (QThread.start, lines 926 and 966) and the event loop of the main thread
\* (app.exec, line 1149) handles every queued signal and deferred deletion;
\* nothing obliges the user to search again
Fairness ==
    /\ \A g \in Gens : WF_vars(SearchWorkerFinish(g))
    /\ \A g \in Gens : WF_vars(\E i \in DOMAIN lw[g].task : LogoYield(g, i))
    /\ \A g \in Gens : WF_vars(\E i \in DOMAIN lw[g].task : LogoEmit(g, i))
    /\ \A g \in Gens : WF_vars(LogoWorkerExit(g))
    /\ WF_vars(OnResults)
    /\ WF_vars(OnLogo)
    /\ WF_vars(DeferredDelete)

SpecLive == Init /\ [][Next]_vars /\ Fairness

PkgInit == PkgStart /\ MergeIdle /\ GuiIdle /\ AuthIdle /\ PoolIdle /\ CardIdle /\ OfflineIdle /\ CliIdle

PkgNext ==
    \/ PkgBegin
    \/ PkgSpawn
    \/ PkgFeed
    \/ PkgReadLine
    \/ PkgReadRaise
    \/ PkgWait
    \/ PkgFinish

SpecPkg == PkgInit /\ [][PkgNext]_vars


MergeInit == MergeStart /\ GuiIdle /\ PkgIdle /\ AuthIdle /\ PoolIdle /\ CardIdle /\ OfflineIdle /\ CliIdle

AuthInit == AuthStart /\ PkgIdle /\ MergeIdle /\ GuiIdle /\ PoolIdle /\ CardIdle /\ OfflineIdle /\ CliIdle

AuthNext ==
    \/ TypePassword
    \/ TryAuth
    \/ Skip
    \/ StartMainWindow
    \/ KeepaliveRefresh
    \/ StartJob
    \/ PkgBegin
    \/ PkgSpawn
    \/ PkgFeed
    \/ PkgReadLine
    \/ PkgReadRaise
    \/ PkgWait
    \/ PkgFinish

SpecAuth == AuthInit /\ [][AuthNext]_vars

PoolInit == PoolStart /\ PkgIdle /\ MergeIdle /\ GuiIdle /\ AuthIdle /\ CardIdle /\ OfflineIdle /\ CliIdle

PoolNext ==
    \/ PoolStop
    \/ PoolSubmit
    \/ PoolTaskDone
    \/ PoolYield
    \/ PoolLoopEnd
    \/ PoolExit

SpecPool == PoolInit /\ [][PoolNext]_vars

CardInit == CardStart /\ PkgIdle /\ MergeIdle /\ GuiIdle /\ AuthIdle /\ PoolIdle /\ OfflineIdle /\ CliIdle

CardNext ==
    \/ HostChange
    \/ CardAction
    \/ CardConnect
    \/ CardJobRun
    \/ CardJobDone

SpecCard == CardInit /\ [][CardNext]_vars

OfflineInit ==
    OfflineStart /\ PkgIdle /\ MergeIdle /\ GuiIdle /\ AuthIdle /\ PoolIdle /\ CardIdle /\ CliIdle

OfflineNext == OfflineCall

SpecOffline == OfflineInit /\ [][OfflineNext]_vars

CliInit ==
    CliStart /\ PkgIdle /\ MergeIdle /\ GuiIdle /\ AuthIdle /\ PoolIdle /\ CardIdle /\ OfflineIdle

CliNext == CliMain \/ CliLoad \/ CliScan \/ CliPrint

SpecCli == CliInit /\ [][CliNext]_vars

MergeNext == RunPrimary \/ RunAur \/ RunOffline

SpecMerge == MergeInit /\ [][MergeNext]_vars

-----------------------------------------------------------------------------
(* Claims about the generation-tagged search (under Spec) *)

Count(seq, x) == Cardinality({i \in 1..Len(seq) : seq[i] = x})
ResultsPending(g) == \E i \in 1..Len(eventQ) : eventQ[i].sig = "results" /\ eventQ[i].gen = g

\* generation g was superseded before its worker emitted, the worker of g + 1
\* has emitted too, and both emissions have been handled
PairSettled(g) ==
    /\ g + 1 \in Gens
    /\ search_id = g + 1
    /\ sw[g].state = "emitted" /\ sw[g].emitAt > g
    /\ sw[g + 1].state = "emitted"
    /\ ~ResultsPending(g) /\ ~ResultsPending(g + 1)

\* C1: of two searches submitted in sequence, where the worker of the first
\* finishes after the second was submitted, the consumer gets exactly one
\* delivery, of the second generation, and none of the first.
C1_OnlyNewestDelivered ==
    /\ \A g \in Gens :
          (sw[g].state = "emitted" /\ sw[g].emitAt > g) => Count(delivered, g) = 0
    /\ \A g \in Gens : Count(delivered, g) <= 1
    /\ \A g \in Gens :
          PairSettled(g) => (Count(delivered, g + 1) = 1 /\ Count(delivered, g) = 0)

C1_Witness == PairSettled(1) /\ delivered = <<2>>

\* C2: the cards of the index _cards, and the widgets of the results layout
\* that are not already scheduled for deletion, were all built from the
\* delivery of the current generation.
C2_OnlyCurrentResultsVisible ==
    /\ \A k \in DOMAIN cards :
          /\ cards[k] \in DOMAIN cardObj
          /\ cards[k] \notin doomed
          /\ cardObj[cards[k]].gen = search_id
          /\ Lower(cardObj[cards[k]].name) = k
    /\ \A i \in 1..Len(results_layout) :
          results_layout[i] \notin doomed =>
              /\ results_layout[i][1] = search_id
              /\ Count(delivered, search_id) = 1

\* cards of the second search are shown, after those of the first were
C2_Witness ==
    /\ search_id = 2
    /\ delivered = <<1, 2>>
    /\ Cardinality(DOMAIN cardObj) = 2
    /\ DOMAIN cards # {}
    /\ results_layout # <<>>

\* C3: _on_logo puts a pixmap on a card only when the generation the emission
\* carries is the current one at that moment.
C3_LogoOnlyForCurrentGeneration ==
    [][\A id \in (DOMAIN cardObj) \cap (DOMAIN cardObj') :
          cardObj'[id].logo # cardObj[id].logo =>
              /\ eventQ # <<>>
              /\ Head(eventQ).sig = "logo"
              /\ Head(eventQ).gen = search_id
              /\ cardObj'[id].logo = search_id
              /\ cardObj[id].gen = search_id]_vars

\* a card of the second search has got its logo, and the next emission
\* _on_logo handles is one of the first search, for a name the index holds
C3_Witness ==
    /\ search_id = 2
    /\ \E id \in DOMAIN cardObj : cardObj[id].logo = 2 /\ cardObj[id].gen = 2
    /\ eventQ # <<>>
    /\ Head(eventQ).sig = "logo"
    /\ Head(eventQ).gen = 1
    /\ Lower(Head(eventQ).name) \in DOMAIN cards

-----------------------------------------------------------------------------
(* Claims about SearchWorker.run (under SpecMerge) *)

MergeDone == mPc = "done"
MergeList == mEmitted[1]

\* what each source returned to run
PrimaryReturned == PrimaryRecords(mPrimary)
AurReturned     == AurRecords(mAur)
OfflineReturned == search_offline(mQuery, mCorpus).recs
LiveReturned    == PrimaryReturned \o AurReturned

\* C4: the merged list emitted by SearchWorker.run holds no two entries with
\* the same lowercased name, and of a name returned by two sources the one
\* entry left is the one of the higher-priority source.
C4_MergeDeduplicates ==
    (MergeDone /\ mEmitted # <<>>) =>
        /\ \A i, j \in 1..Len(MergeList) :
              i # j => Lower(MergeList[i].name) # Lower(MergeList[j].name)
        /\ \A n \in LowerNames(PrimaryReturned) \cap LowerNames(AurReturned) :
              \A i \in 1..Len(MergeList) :
                 Lower(MergeList[i].name) = n => MergeList[i].repo # AUR

\* C5: a lowercased name returned by a Live source and by the offline store is
\* in the merged list as the Live record (source "online", Live origin label)
\* and in no record whose source is "offline".
C5_LiveWinsOverOffline ==
    (MergeDone /\ mEmitted # <<>>) =>
        \A n \in LowerNames(LiveReturned) \cap LowerNames(OfflineReturned) :
            /\ \E i \in 1..Len(MergeList) :
                  /\ Lower(MergeList[i].name) = n
                  /\ MergeList[i].source = "online"
                  /\ \E k \in 1..Len(LiveReturned) : MergeList[i] = LiveReturned[k]
            /\ \A i \in 1..Len(MergeList) :
                  Lower(MergeList[i].name) = n => MergeList[i].source # "offline"

\* the same name, in another case, came from a Live source and from the store
C5_Witness ==
    /\ MergeDone /\ mEmitted # <<>>
    /\ \E k \in 1..Len(LiveReturned), o \in 1..Len(OfflineReturned) :
          /\ LiveReturned[k].name # OfflineReturned[o].name
          /\ Lower(LiveReturned[k].name) = Lower(OfflineReturned[o].name)

RemoteFailed(out) == out.kind # "ok"

\* C6: whatever the outcomes of the two remote requests, run emits
\* results_ready exactly once, and the list is the records of the sources
\* that succeeded, merged.
C6_RemoteFailureNeverAborts ==
    (MergeDone /\ (RemoteFailed(mPrimary) \/ RemoteFailed(mAur))) =>
        /\ Len(mEmitted) = 1
        /\ MergeList =
              MergeOffline((IF RemoteFailed(mPrimary) THEN <<>> ELSE PrimaryReturned)
                           \o (IF RemoteFailed(mAur) THEN <<>> ELSE AurReturned),
                           OfflineReturned)

\* the corpus is the document {"apps": [{name, desc, category}, ...]}
WellFormedEntry(app) ==
    app.obj /\ app.name.t # "null" /\ app.desc.t # "null" /\ app.category.t # "null"
WellFormedCorpus(c) ==
    c.kind = "apps" /\ \A i \in 1..Len(c.apps) : WellFormedEntry(c.apps[i])
EntryMatches(q, app) ==
    \/ Contains(Lower(Get(app.name, <<>>)), Lower(q))
    \/ Contains(Lower(Get(app.desc, <<>>)), Lower(q))
    \/ Contains(Lower(Get(app.category, <<>>)), Lower(q))
StoreHasMatch ==
    WellFormedCorpus(mCorpus)
    /\ \E i \in 1..Len(mCorpus.apps) : EntryMatches(mQuery, mCorpus.apps[i])

\* C7: when both remote sources fail and the offline store holds a record
\* matching the query, the delivered list is not empty and every entry of it
\* has source "offline".
C7_OfflineOnlyFallback ==
    (MergeDone /\ RemoteFailed(mPrimary) /\ RemoteFailed(mAur) /\ StoreHasMatch) =>
        /\ Len(mEmitted) = 1
        /\ MergeList # <<>>
        /\ \A i \in 1..Len(MergeList) : MergeList[i].source = "offline"

\* one remote request raised, the other answered a non-200 status with a body
C7_Witness ==
    /\ MergeDone /\ StoreHasMatch
    /\ mPrimary.kind = "status" /\ mPrimary.recs # <<>> /\ mAur.kind = "exc"
    /\ mEmitted # <<>>

\* C8: in every state of the corpus file search_offline returns without
\* raising, so that run still emits its results.
C8_CorpusFailureIsNotFatal ==
    MergeDone => (~mRaised /\ Len(mEmitted) = 1)

-----------------------------------------------------------------------------
(* Claims about one install or uninstall job (under SpecPkg) *)

\* the tool the job needs is pacman, and pacman is not installed
ToolMissing == (pJob.uninstall \/ ~pJob.is_aur) /\ ~pHost.pacman

RECURSIVE ChildTexts(_)
\* the texts of the output_line emissions that are child lines, in order
ChildTexts(sink) ==
    IF sink = <<>> THEN <<>>
    ELSE IF Head(sink).src = "child"
         THEN <<Head(sink).text>> \o ChildTexts(Tail(sink))
         ELSE ChildTexts(Tail(sink))

\* C9 as stated: a job whose tool is missing ends Failed without spawning a
\* child, and emits no line at all to output_line.
C9_ToolMissingEmitsNothing ==
    (pPc = "done" /\ ToolMissing) =>
        (pFinished = <<FALSE>> /\ pSpawned = <<>> /\ pSink = <<>>)

\* C9: a job whose tool (pacman) is missing never spawns a child and never
\* forwards a child line; it ends Failed, having emitted to output_line exactly
\* one line, the worker's own "pacman not found" message.
C9_ToolMissingFailsWithoutChild ==
    ToolMissing =>
        /\ pSpawned = <<>>
        /\ ChildTexts(pSink) = <<>>
        /\ pPc = "done" =>
              /\ pFinished = <<FALSE>>
              /\ pSink = <<WorkerLine("pacman not found")>>

C9_Witness == pPc = "done" /\ ToolMissing /\ pFinished = <<FALSE>> /\ Len(pSink) = 1

\* the prompt echo as the statement words it: the tag and the marker compared
\* as written
PromptEchoLiteral(stripped) ==
    StartsWith(stripped, SudoTag) \/ EndsWith(stripped, PasswordMarker)

\* the prompt echo with the tag compared without regard to case
PromptEchoAnyCase(stripped) ==
    StartsWith(Lower(stripped), SudoTag) \/ EndsWith(stripped, PasswordMarker)

RECURSIVE ForwardedLiteral(_)
ForwardedLiteral(lines) ==
    IF lines = <<>> THEN <<>>
    ELSE IF PromptEchoLiteral(RStrip(Head(lines)))
         THEN ForwardedLiteral(Tail(lines))
         ELSE <<RStrip(Head(lines))>> \o ForwardedLiteral(Tail(lines))

RECURSIVE ForwardedAnyCase(_)
ForwardedAnyCase(lines) ==
    IF lines = <<>> THEN <<>>
    ELSE IF PromptEchoAnyCase(RStrip(Head(lines)))
         THEN ForwardedAnyCase(Tail(lines))
         ELSE <<RStrip(Head(lines))>> \o ForwardedAnyCase(Tail(lines))

\* C10 as stated: of the lines read from the child, on the run_sudo path and on
\* the community-helper path, those that start with "[sudo]" or end with
\* "password:" are never forwarded, and every other line is forwarded once, in
\* the order read.
C10_PromptEchoSuppressed ==
    ChildTexts(pSink) = ForwardedLiteral(pConsumed)

\* C10: of the lines read from the child, on either path, those that, with
\* trailing whitespace removed, start with "[sudo]" in any letter case or end
\* with "password:" are never forwarded, and every other line is forwarded
\* once, without its trailing whitespace, in the order read.
C10_PromptEchoSuppressedAnyCase ==
    ChildTexts(pSink) = ForwardedAnyCase(pConsumed)

C10_Witness ==
    /\ pPc = "done"
    /\ \E i \in 1..Len(pConsumed) :
          /\ PromptEchoAnyCase(RStrip(pConsumed[i]))
          /\ ~PromptEchoLiteral(RStrip(pConsumed[i]))
    /\ Len(ChildTexts(pSink)) = 1

\* the except branch was taken: its message is among the emissions
Raised == \E i \in 1..Len(pSink) : pSink[i] = WorkerLine("Error")

\* C11: a finished job that spawned a child reports Succeeded exactly when the
\* child's exit code, as read after proc.wait(), is zero; a job in which
\* spawning, writing or reading raised finishes too, and reports Failed.
C11_OutcomeIsExitCode ==
    /\ (pPc = "done" /\ pSpawned # <<>>) =>
          /\ Len(pFinished) = 1
          /\ pFinished[1] <=> (pExit = <<0>>)
    /\ Raised =>
          /\ pExit = <<>>
          /\ pPc \in {"finish", "done"}
          /\ pPc = "done" => pFinished = <<FALSE>>

C11_Witness ==
    /\ pPc = "done"
    /\ Len(pSpawned) = 1
    /\ pExit = <<0>>
    /\ pFinished = <<TRUE>>

\* C12: finished_ok is emitted exactly once on every path through
\* PkgWorker.run: not before the run ends, once when it has ended, and once it
\* is emitted neither a further finished_ok nor a further output_line follows.
C12_FinishedOnceAndLast ==
    /\ [](Len(pFinished) = (IF pPc = "done" THEN 1 ELSE 0))
    /\ [][pFinished # <<>> => (pFinished' = pFinished /\ pSink' = pSink)]_vars

C12_Witness ==
    /\ pPc = "done"
    /\ Len(pFinished) = 1
    /\ Raised
    /\ pSpawned = <<>>

\* what the worker does to a child's stdin when nothing raises
FedOnce ==
    <<[op |-> "write", data |-> SudoPassword \o <<"\n">>],
      [op |-> "flush", data |-> <<>>],
      [op |-> "close", data |-> <<>>]>>

\* C13: for every child a job spawned, once the worker has moved past feeding
\* it, the credential has been written to its stdin exactly once and the stdin
\* closed right after, with nothing written after the close; and no line of the
\* child is read before that.
C13_CredentialOnceThenClosed ==
    /\ (pSpawned # <<>> /\ pPc \in {"read", "finish", "done"}) => pStdin = FedOnce
    /\ pConsumed # <<>> => pStdin = FedOnce
    /\ Cardinality({i \in 1..Len(pStdin) : pStdin[i].op = "write"}) <= 1
    /\ \A i \in 1..Len(pStdin) : pStdin[i].op = "close" => i = Len(pStdin)

-----------------------------------------------------------------------------
(* Claims about start-up and the credential (under SpecAuth) *)

\* the child is run through sudo
Privileged(cmd) == cmd[1] = "sudo"

PrivilegedSpawned == \E i \in 1..Len(pSpawned) : Privileged(pSpawned[i])

\* C14: once an authentication attempt has been rejected (sudo's check exited
\* non-zero), a PkgWorker spawns a privileged child only if a later attempt
\* succeeded and stored a credential, that is, only if the dialog was accepted.
C14_NoJobAfterRejection ==
    (authRejected /\ PrivilegedSpawned) =>
        (dlgResult = "accepted" /\ sudo_password # <<>>)

PkgRunning == pPc \notin {"off", "done"}

-----------------------------------------------------------------------------
(* Claims about which tool a job uses (under SpecPkg) *)

\* C17: for a job with uninstall set, whether is_aur is set or not, the only
\* executable shutil.which is asked for is pacman, every child spawned is
\* sudo -S -k pacman -Rns --noconfirm <package>, and neither yay nor paru is
\* looked up or spawned.
C17_UninstallAlwaysPacman ==
    pJob.uninstall =>
        /\ Range(pWhich) \subseteq {"pacman"}
        /\ pPath # "helper"
        /\ \A i \in 1..Len(pSpawned) :
              pSpawned[i] = <<"sudo", "-S", "-k", "pacman", "-Rns", "--noconfirm",
                              pJob.pkg_name>>
        /\ pPc = "done" => (pWhich = <<"pacman">> /\ Len(pSpawned) <= 1)

C17_Witness ==
    /\ pPc = "done"
    /\ pJob.uninstall /\ pJob.is_aur
    /\ pHost.yay
    /\ Len(pSpawned) = 1

\* the install of a package from the AUR
AurInstall == ~pJob.uninstall /\ pJob.is_aur

\* the helpers in the order of preference
HelperOrder == <<"yay", "paru">>

\* the positions in HelperOrder of the helpers the host has
PresentAt == {i \in 1..Len(HelperOrder) : pHost[HelperOrder[i]]}

\* the position of the first of them
FirstPresent == CHOOSE i \in PresentAt : \A j \in PresentAt : i <= j

\* C18: the install of an AUR package looks the helpers up in the order yay,
\* paru, as far as the first one present; it spawns that helper and no other
\* process, at most once, and exactly once when the run ends with nothing
\* raised; when no helper is present it spawns nothing and ends Failed with
\* the "no helper" message.
C18_HelperFallback ==
    AurInstall =>
        /\ Len(pSpawned) <= 1
        /\ IF PresentAt = {}
           THEN /\ pSpawned = <<>>
                /\ pPc = "done" =>
                      /\ pFinished = <<FALSE>>
                      /\ pSink = <<WorkerLine("No AUR helper found")>>
                      /\ pWhich = HelperOrder
           ELSE /\ \A i \in 1..Len(pSpawned) :
                      pSpawned[i] = <<HelperOrder[FirstPresent], "-S", "--noconfirm",
                                      pJob.pkg_name>>
                /\ pPc # "start" => pWhich = SubSeq(HelperOrder, 1, FirstPresent)
                /\ (pPc = "done" /\ ~Raised) => Len(pSpawned) = 1

C18_Witness ==
    /\ pPc = "done"
    /\ AurInstall
    /\ ~pHost.yay /\ pHost.paru
    /\ Len(pSpawned) = 1
    /\ pSpawned[1][1] = "paru"

-----------------------------------------------------------------------------
(* Claims about the logo workers (under Spec) *)

\* the logo workers whose thread is running
RunningLogoWorkers == {g \in Gens : lw[g].state = "running"}

\* those of them that were not asked to stop
ActiveLogoWorkers == {g \in RunningLogoWorkers : ~lw[g].stop}

\* C19 as stated: in every reachable state at most one LogoWorker is running.
C19_AtMostOneLogoWorkerRunning ==
    Cardinality(RunningLogoWorkers) <= 1

\* C19: in every reachable state at most one running LogoWorker has not been
\* asked to stop, and it is the one self.logo_worker refers to; every other
\* running LogoWorker has had stop() called on it before the next was started.
C19_AtMostOneLogoWorkerNotStopped ==
    /\ Cardinality(ActiveLogoWorkers) <= 1
    /\ ActiveLogoWorkers \subseteq {logo_worker}

C19_Witness ==
    /\ Cardinality(RunningLogoWorkers) = 2
    /\ lw[1].state = "running" /\ lw[1].stop
    /\ lw[2].state = "running" /\ ~lw[2].stop
    /\ logo_worker = 2

-----------------------------------------------------------------------------
(* Claims about the thread pool of a LogoWorker (under SpecPool) *)

\* C20: once stop() was called on a LogoWorker, its fetch tasks that are
\* running may end, but none that had not begun begins: the number of tasks
\* begun no longer grows.
C20_NoDispatchAfterStop ==
    [][tpStop => tpStarted' = tpStarted]_vars

-----------------------------------------------------------------------------
(* Further claims about the generation-tagged search (under Spec) *)

\* the generations some search worker, logo worker or queued signal carries
CarriedGenerations ==
    {g \in Gens : sw[g].state # "none" \/ lw[g].state # "none"}
        \cup {eventQ[i].gen : i \in {j \in 1..Len(eventQ) : eventQ[j].sig # "delete"}}

\* C21: _search_id never decreases; a step that starts a search worker raises
\* it by exactly one and gives the worker the new value, and no other step
\* changes it; a worker keeps the query and generation it was created with, and
\* no worker or queued signal carries a generation above the current one.
C21_GenerationMonotone ==
    /\ [][/\ search_id' >= search_id
          /\ \A g \in Gens :
                (sw[g].state = "none" /\ sw'[g].state # "none") <=>
                    (search_id' = search_id + 1 /\ g = search_id')
          /\ \A g \in Gens :
                sw[g].state # "none" =>
                    (sw'[g].state # "none" /\ sw'[g].query = sw[g].query)
          /\ \A g \in Gens :
                (lw[g].state = "none" /\ lw'[g].state # "none") => g = search_id]_vars
    /\ [](\A g \in CarriedGenerations : g <= search_id)

C21_Witness ==
    /\ search_id = 2
    /\ sw[1].state = "running"
    /\ sw[2].state = "running"

-----------------------------------------------------------------------------
(* Further claims about the merge (under SpecMerge) *)

\* how many records of a remote answer run takes
TakenFrom(out) ==
    IF out.kind = "ok" THEN (IF Len(out.recs) < OnlineCap THEN Len(out.recs) ELSE OnlineCap)
    ELSE 0

\* the positions of the offline records that no Live name shadows
Survivors ==
    {k \in 1..Len(OfflineReturned) :
        \A i \in 1..Len(LiveReturned) :
            Lower(LiveReturned[i].name) # Lower(OfflineReturned[k].name)}

\* C22: the emitted list is, position by position, the records of the primary
\* index in the order it answered them, then those of the community index in
\* its order, then the surviving offline records in the order search_offline
\* returned them; so it is a function of the three answers alone.
C22_MergeOrderBySourceThenOrigin ==
    (MergeDone /\ mEmitted # <<>>) =>
        LET np == TakenFrom(mPrimary)
            na == TakenFrom(mAur)
        IN /\ Len(MergeList) = np + na + Cardinality(Survivors)
           /\ \A i \in 1..np :
                 /\ MergeList[i].name = mPrimary.recs[i].name
                 /\ MergeList[i].repo = mPrimary.recs[i].repo
                 /\ MergeList[i].source = "online"
           /\ \A i \in 1..na :
                 /\ MergeList[np + i].name = mAur.recs[i].name
                 /\ MergeList[np + i].repo = AUR
                 /\ MergeList[np + i].source = "online"
           /\ \A k \in Survivors :
                 MergeList[np + na + Cardinality({j \in Survivors : j <= k})]
                    = OfflineReturned[k]

C22_Witness ==
    /\ MergeDone /\ mEmitted # <<>>
    /\ TakenFrom(mPrimary) = 1
    /\ TakenFrom(mAur) = 2
    /\ mAur.recs[1] # mAur.recs[2]
    /\ Survivors # {}
    /\ Len(MergeList) = 4

\* the three sources in the order run visits them, and where run is
SourceOrder == <<"primary", "aur", "offline">>
InFlight(src) == mPc = src
Started(src) ==
    \E i, j \in 1..Len(SourceOrder) :
        /\ SourceOrder[i] = src
        /\ i <= j
        /\ (mPc = SourceOrder[j] \/ mPc = "done")

\* C23: the three searches of one generation are started without one waiting
\* for another to complete: while any of them is in flight the other two have
\* been started as well.
C23_SourcesStartedTogether ==
    \A x \in Range(SourceOrder) :
        InFlight(x) => \A y \in Range(SourceOrder) : Started(y)

-----------------------------------------------------------------------------
(* Claims about the installed flag of a card (under SpecCard) *)

\* C24: the installed flag is queried before the card is shown, and when a job
\* started from the card completes, succeeded or failed, the flag the card
\* then holds is what is_installed answers at that moment.
C24_InstalledRequeriedAfterJob ==
    [][Len(cardDone') > Len(cardDone) =>
          card_installed' = is_installed(hostInstalled')]_vars

-----------------------------------------------------------------------------
(* Claims about search_offline (under SpecOffline) *)

\* the positions of the entries of which the name, the description or the
\* category holds the query, letter case set aside
Matching ==
    {i \in 1..Len(oCorpus.apps) : EntryMatches(oQuery, oCorpus.apps[i])}

\* the position of the k-th of them, in file order
KthMatching(k) ==
    CHOOSE i \in Matching : Cardinality({j \in Matching : j <= i}) = k

\* C25: the list search_offline returns holds, in the order of the file, the
\* entries of which the name, the description or the category holds the query
\* as a substring, letter case set aside, each of them once and no other,
\* cut to the first 12.
C25_OfflineQuerySemantics ==
    oPc = "returned" =>
        LET n == IF oCorpus.kind = "apps" THEN Cardinality(Matching) ELSE 0 IN
        /\ Len(oResult) = (IF n < OfflineCap THEN n ELSE OfflineCap)
        /\ \A k \in 1..Len(oResult) :
              LET app == oCorpus.apps[KthMatching(k)] IN
              /\ oResult[k].name = Get(app.name, <<>>)
              /\ oResult[k].desc = Get(app.desc, NoDescription)
              /\ oResult[k].source = "offline"

C25_Witness ==
    /\ oPc = "returned"
    /\ oQuery = UA
    /\ Cardinality(Matching) = OfflineCap + 1
    /\ Len(oResult) = OfflineCap
    /\ oResult[OfflineCap].desc = <<Tags[OfflineCap]>>

-----------------------------------------------------------------------------
(* Claims about the command-line search (under SpecCli) *)

\* C26: the command-line search ends with exit code 0 whatever its arguments
\* and whatever the corpus file holds, and without an argument it prints the
\* usage message and does not read the corpus.
C26_CliExitsZeroAndUsage ==
    cliPc = "exit" =>
        /\ cliExit = <<0>>
        /\ argv = <<>> => (cliOut = <<"usage", "example">> /\ ~cliLoaded)

-----------------------------------------------------------------------------
(* Claims about the window, continued (under Spec) *)

\* the completion at the head of the queue carries a generation that is not
\* the current one
StaleAtHead ==
    /\ eventQ # <<>>
    /\ Head(eventQ).sig \in {"results", "logo"}
    /\ Head(eventQ).gen # search_id

\* C27: the step in which _on_results or _on_logo takes a completion of a
\* generation other than the current one changes nothing: the cards, the
\* card index, the status text, the loading state of the search button, the
\* current generation and the logo worker stay as they were.
C27_StaleCompletionIsNoOp ==
    [][(StaleAtHead /\ eventQ' = Tail(eventQ)) =>
          UNCHANGED <<results_layout, cardObj, cards, status_lbl, loading,
                      search_id, search_worker, logo_worker, lw>>]_vars

\* the results of generation 1 were emitted, taken from the queue and dropped
\* while search 2 was in flight
C27_Witness ==
    /\ search_id = 2
    /\ sw[1].state = "emitted"
    /\ \A i \in 1..Len(eventQ) : eventQ[i].sig = "results" => eventQ[i].gen # 1
    /\ delivered = <<>>
    /\ loading

\* C28: once search g was submitted, either a later search is submitted or,
\* in the end, the results of g have been delivered and the search button is
\* back in its idle state; this whatever the three sources answered.
C28_DeliveryLiveness ==
    \A g \in Gens :
        (search_id = g) ~> (search_id # g \/ (g \in Range(delivered) /\ ~loading))

\* C29: the search button is in its loading, disabled state exactly when a
\* search was submitted and the results of the current generation have not
\* been delivered yet; a completion of an older generation does not end it.
C29_LoadingIffCurrentUndelivered ==
    loading <=> (search_id > 0 /\ search_id \notin Range(delivered))

\* search 2 was answered and the button is idle again, after the results of
\* generation 1 arrived late and were dropped
C29_Witness ==
    /\ search_id = 2
    /\ sw[1].state = "emitted"
    /\ sw[1].emitAt = 2
    /\ \A i \in 1..Len(eventQ) : eventQ[i].sig # "results"
    /\ delivered = <<2>>
    /\ ~loading

\* the text is empty or made of spaces only
Blank(text) == \A i \in 1..Len(text) : text[i] = " "

\* C30: perform_search on a search field that is empty or holds only spaces
\* does nothing: the generation is not incremented, the logo worker is not
\* stopped, the cards stay, the loading state stays and no SearchWorker is
\* started.
C30_BlankQueryIsNoOp ==
    [][(search_input' # search_input /\ Blank(search_input')) =>
          UNCHANGED <<search_id, search_worker, sw, logo_worker, lw, cards,
                      results_layout, cardObj, status_lbl, loading, eventQ>>]_vars

\* spaces were submitted after search 1; its cards are shown and its logo
\* worker runs, not asked to stop
C30_Witness ==
    /\ search_input = <<" ">>
    /\ search_id = 1
    /\ delivered = <<1>>
    /\ cards # <<>>
    /\ LogoRunning(1)
    /\ ~lw[1].stop
    /\ ~loading

\* the cards on display: built from the delivery of the current generation,
\* in the results layout and not scheduled for deletion
DisplayedCards ==
    {id \in (Range(results_layout) \cap DOMAIN cardObj) \ doomed :
        cardObj[id].gen = search_id}

\* C31: once the results of the current generation were delivered, each card
\* on display is the entry of the index _cards under its lowercased name, so
\* the index has as many entries as there are cards on display and a logo for
\* a displayed name lands on the card of that item.
C31_CardIndexComplete ==
    search_id \in Range(delivered) =>
        /\ \A id \in DisplayedCards :
              /\ Lower(cardObj[id].name) \in DOMAIN cards
              /\ cards[Lower(cardObj[id].name)] = id
        /\ Cardinality(DOMAIN cards) = Cardinality(DisplayedCards)

-----------------------------------------------------------------------------
(* Claims about one card and its jobs (under SpecCard) *)

\* the jobs started from the card whose finished_ok the card has not handled:
\* the workers running and the signal queued
CardJobsInFlight == cardRunning + Len(cardSignal)

\* C32: at most one job started from a card is in flight; a job is started
\* only by a click on the enabled button with no job in flight, the button is
\* disabled whenever the event loop runs with a job in flight, and only the
\* handling of the job's finished_ok enables it again.
C32_OneJobPerCard ==
    /\ [](CardJobsInFlight <= 1)
    /\ []((cardMain = "loop" /\ CardJobsInFlight > 0) => ~action_btn)
    /\ [][cardRunning' > cardRunning =>
             (action_btn /\ cardMain = "loop" /\ CardJobsInFlight = 0)]_vars
    /\ [][(~action_btn /\ action_btn') =>
             (cardSignal # <<>> /\ cardSignal' = <<>> /\ Len(cardDone') = Len(cardDone) + 1)]_vars

\* a second job runs, started after the first was handled, and the button is
\* disabled again
C32_Witness ==
    /\ Len(cardDone) = 1
    /\ cardRunning = 1
    /\ cardMain = "loop"
    /\ ~action_btn

\* nothing of a job is left to happen: no worker runs, no finished_ok is
\* queued, and the main thread is back in the event loop
CardQuiet == cardMain = "loop" /\ cardRunning = 0 /\ cardSignal = <<>>

\* C33: once a job started from the card is over, the installed flag is true
\* after an install that succeeded, false after an uninstall that succeeded,
\* and what it was before the job when the job failed; the action button is
\* enabled again in every case.
C33_FlagKeptOnFailure ==
    (CardQuiet /\ cardRan # <<>>) =>
        LET last == cardRan[Len(cardRan)] IN
        /\ card_installed = (IF last.success THEN last.job = "install" ELSE last.flag)
        /\ action_btn

====
